---- MODULE Spec2Model ----
(***************************************************************************)
(* Clipboard monitoring, deduplication and restore core of the clipboard   *)
(* manager (electron/main.ts, class ClipboardManager).                     *)
(*                                                                         *)
(* Strings are sequences of one-character strings, so that trimming, the   *)
(* substring tests and the tag regular expression are computed and not     *)
(* assumed.  The empty string '' is << >>.  The OS clipboard is a store    *)
(* with one slot per representation (image, HTML, text): a read returns    *)
(* what the last write put in that slot.                                   *)
(***************************************************************************)
EXTENDS Integers, Sequences, FiniteSets, TLC

VARIABLES
    clipboardHistory,   \* this.clipboardHistory, newest first
    store,              \* the persisted 'history' record of electron-store
    lastTextContent,    \* this.lastTextContent
    lastImageHash,      \* this.lastImageHash
    lastHtmlContent,    \* this.lastHtmlContent
    isInternalCopy,     \* this.isInternalCopy
    guardTimers,        \* pending setTimeout(..., 100) callbacks of restores
    osClipboard,        \* the OS clipboard: [image, html, text]
    clock,              \* the value the latest Date.now() call returned
    reported,           \* (content, type) the tick just taken passed to addToHistory
    returned,           \* the IPC call just handled: its argument and the list it returned
    sinceRestore,       \* history at the latest restore, while only timers ran since
    writeRun,           \* consecutive identical external writes and their inserts
    ownWrite,           \* 0: not ours; 1: the clipboard holds what a restore wrote; 2: and a tick ran
    notified,           \* the 'clipboard-updated' message the step just taken sent, if any
    autoPasteEnabled,   \* this.autoPasteEnabled
    settings,           \* the persisted 'autoPaste' record of electron-store
    previousActiveApp,  \* this.previousActiveApp
    frontApp,           \* the front-most application, as System Events reports it
    platform,           \* process.platform
    pasteTimers,        \* pending setTimeout(..., 300) callbacks of simulatePaste
    pasteInner,         \* pending setTimeout(..., 500) callbacks of simulatePaste
    failedReads,        \* the clipboard reads that failed on the tick just taken
    actuated,           \* what the paste step just taken did: outcome, keystroke target, feedback
    saveFailed,         \* the operation whose store.set('history', ...) just threw, if any
    shownFront,         \* the application that was front-most when showWindow last ran
    pollInterval,       \* this.pollInterval holds a timer (TRUE) or null (FALSE)
    pollTimers,         \* the setInterval timers of the poll callback that are active
    windows,            \* BrowserWindow.getAllWindows().length
    ipcHandlers,        \* ipcMain holds the handlers setupIPC registers
    initCalls,          \* the calls of init() made so far
    uiHistory,          \* the App component's clipboardHistory state
    subscribed,         \* the App component is mounted: its listeners are registered
    toMain,             \* the App's invokes the main process has not handled yet
    toUI,               \* replies and 'clipboard-updated' messages the renderer has not received yet
    ipcListeners        \* ipcRenderer's listeners by channel, the subscriptions made and cancelled, the callbacks the event just received called

vars == << clipboardHistory, store, lastTextContent, lastImageHash,
           lastHtmlContent, isInternalCopy, guardTimers, osClipboard, clock,
           reported, returned, sinceRestore, writeRun, ownWrite, notified,
           autoPasteEnabled, settings, previousActiveApp, frontApp, platform,
           pasteTimers, pasteInner, failedReads, actuated, saveFailed,
           shownFront, pollInterval, pollTimers, windows, ipcHandlers,
           initCalls, uiHistory, subscribed, toMain, toUI, ipcListeners >>

\* the state of the Restore/Paste Actuator and of the desktop around it
pasteVars == << autoPasteEnabled, settings, previousActiveApp, frontApp,
                platform, pasteTimers, pasteInner, shownFront >>

\* the application's lifecycle: the poll timers, the window, the IPC handlers
lifeVars == << pollInterval, pollTimers, windows, ipcHandlers, initCalls >>
uiVars == << uiHistory, subscribed, toMain, toUI, ipcListeners >>

(***************************************************************************)
(* Program constants and model bounds                                      *)
(***************************************************************************)
HistoryCap == 100
RecentWindow == 3
TagThreshold == 2
PollPeriod == 300

MaxInserts == 2
MaxTimers == 1
MaxOverlap == 2
MaxInFlight == 2
MaxPending == 1
MaxSubs == 2
PickWindow == 1
MaxTokens == 4
NumCopies == 101
MaxInits == 2

Min(a, b) == IF a < b THEN a ELSE b

Take(s, n) == SubSeq(s, 1, Min(n, Len(s)))

EmptyString == << >>
NoImage == << >>

\* "nothing was reported" and "nothing was returned"
NoCandidate == [content |-> EmptyString, type |-> "none"]
NoReturn == [op |-> "none", arg |-> 0, list |-> << >>]
NoWindow == [phase |-> "none", ticked |-> FALSE, hist |-> << >>]
NoRun == [n |-> 0, inserted |-> 0, polled |-> FALSE]
NoNotice == [sent |-> FALSE, payload |-> << >>]
NoPaste == [outcome |-> "none", keystroke |-> "", feedback |-> "none"]
NoFailure == [op |-> "none", arg |-> 0]

\* webContents.send('clipboard-updated', history)
Notice(history) == [sent |-> TRUE, payload |-> history]

\* a step that is no paste step, sends no history notification and on which
\* nothing failed
Silent ==
    /\ notified' = NoNotice
    /\ actuated' = NoPaste
    /\ failedReads' = {}
    /\ saveFailed' = NoFailure

\* the channels whose reply the App assigns to its clipboardHistory state
HistoryReplies == { "get-history", "delete", "clear" }

\* what a step of the main process sends to the renderer: the
\* 'clipboard-updated' message at the moment send is called, then the value
\* the handler returned, which ipcMain sends when the handler has ended
Outgoing(notice, reply) ==
    (IF notice.sent
     THEN << [kind |-> "clipboard-updated", list |-> notice.payload] >>
     ELSE << >>)
    \o (IF reply.op \in HistoryReplies
        THEN << [kind |-> reply.op, list |-> reply.list] >>
        ELSE << >>)

\* the renderer's side of a step of the main process. A message sent while
\* no listener is registered is dropped; a handler that replies has taken
\* the oldest invoke the App sent
Transport ==
    /\ toUI' = IF subscribed THEN toUI \o Outgoing(notified', returned')
               ELSE toUI
    /\ toMain' = IF subscribed /\ returned'.op \in HistoryReplies
                 THEN Tail(toMain)
                 ELSE toMain
    /\ UNCHANGED << uiHistory, subscribed, ipcListeners >>

(***************************************************************************)
(* String helpers of the JavaScript runtime used by the poll callback      *)
(***************************************************************************)
RECURSIVE TrimStart(_)
TrimStart(s) ==
    IF s # EmptyString /\ Head(s) = " " THEN TrimStart(Tail(s)) ELSE s

RECURSIVE TrimEnd(_)
TrimEnd(s) ==
    IF s # EmptyString /\ s[Len(s)] = " "
    THEN TrimEnd(SubSeq(s, 1, Len(s) - 1))
    ELSE s

\* String.prototype.trim
Trim(s) == TrimEnd(TrimStart(s))

\* String.prototype.includes for a one-character needle
Includes(s, ch) == \E i \in 1..Len(s) : s[i] = ch

\* position of the first ">" at or after j, 0 when there is none
RECURSIVE FirstClose(_, _)
FirstClose(s, j) ==
    IF j > Len(s) THEN 0
    ELSE IF s[j] = ">" THEN j
    ELSE FirstClose(s, j + 1)

\* number of matches of /<[^>]+>/g in s from position i on: a match starts at
\* a "<" followed by at least one character that is not ">" and ends at the
\* first ">" after it; the scan resumes behind the match.
RECURSIVE MatchTags(_, _)
MatchTags(s, i) ==
    IF i > Len(s) THEN 0
    ELSE IF /\ s[i] = "<"
            /\ i + 1 <= Len(s)
            /\ s[i + 1] # ">"
            /\ FirstClose(s, i + 2) # 0
         THEN 1 + MatchTags(s, FirstClose(s, i + 2) + 1)
         ELSE MatchTags(s, i + 1)

\* (html.match(/<[^>]+>/g) || []).length
TagCount(s) == MatchTags(s, 1)

(***************************************************************************)
(* Content Classifier (the text/HTML part of the poll callback)            *)
(***************************************************************************)
\* the tag test written as "at least two"
IsActualHTMLFromTwoTags(html, text) ==
    /\ html # EmptyString
    /\ Trim(html) # EmptyString
    /\ html # text
    /\ Includes(html, "<")
    /\ Includes(html, ">")
    /\ TagCount(html) >= TagThreshold

IsActualHTML(html, text) ==
    /\ html # EmptyString
    /\ Trim(html) # EmptyString
    /\ html # text
    /\ Includes(html, "<")
    /\ Includes(html, ">")
    /\ TagCount(html) > TagThreshold

CurrentContent(html, text) == IF IsActualHTML(html, text) THEN html ELSE text

ContentType(html, text) == IF IsActualHTML(html, text) THEN "html" ELSE "text"

(***************************************************************************)
(* Image encodings: PNG encoding of a bitmap, base64 data URL, MD5 digest  *)
(***************************************************************************)
DataUrlPrefix == "data:image/png;base64,"

\* image.toPNG(): the PNG buffer of a bitmap
ToPNG(image) == << "png" >> \o image

\* nativeImage.createFromBuffer(buffer): the bitmap a PNG buffer decodes to
CreateFromBuffer(buffer) ==
    IF buffer # << >> /\ Head(buffer) = "png" THEN Tail(buffer) ELSE NoImage

\* buffer.toString('base64')
ToBase64(buffer) == << "b64" >> \o buffer

\* Buffer.from(data, 'base64')
FromBase64(data) ==
    IF data # << >> /\ Head(data) = "b64" THEN Tail(data) ELSE << >>

\* createHash('md5').update(buffer).digest('hex')
Md5(buffer) == << "md5" >> \o buffer

\* `data:image/png;base64,${imageBuffer.toString('base64')}`
ImageBase64(buffer) == << DataUrlPrefix >> \o ToBase64(buffer)

\* item.content.replace('data:image/png;base64,', '')
StripDataUrl(content) ==
    IF \E i \in 1..Len(content) : content[i] = DataUrlPrefix
    THEN LET i == CHOOSE k \in 1..Len(content) :
                      /\ content[k] = DataUrlPrefix
                      /\ \A j \in 1..(k - 1) : content[j] # DataUrlPrefix
         IN  SubSeq(content, 1, i - 1) \o SubSeq(content, i + 1, Len(content))
    ELSE content

(***************************************************************************)
(* History Store and Dedup Policy (addToHistory, saveHistory)              *)
(***************************************************************************)
\* an id taken from the clock in seconds
ItemIdInSeconds(t) == t \div 1000

\* id: Date.now().toString()
ItemId(t) == t

\* the ClipboardItem built by addToHistory at clock value t
NewItem(content, type, t) ==
    [id |-> ItemId(t), content |-> content, type |-> type, timestamp |-> t]

\* a comparison with the front entry alone
IsDuplicateOfFront(h, content, type) ==
    Len(h) >= 1 /\ h[1].content = content /\ h[1].type = type

\* the loop over clipboardHistory.slice(0, 3)
IsRecentDuplicate(h, content, type) ==
    \E i \in 1..Min(RecentWindow, Len(h)) :
        h[i].content = content /\ h[i].type = type

\* whether addToHistory(content, type) reaches the unshift
Accepts(h, flag, content, type) ==
    /\ content # EmptyString
    /\ ~flag
    /\ ~IsRecentDuplicate(h, content, type)

\* unshift(item) with the slice left out
UnshiftUncapped(h, item) == << item >> \o h

\* push(item) in place of unshift(item)
PushAtEnd(h, item) == Take(h \o << item >>, HistoryCap)

\* unshift(item) followed by slice(0, 100)
Unshift(h, item) == Take(<< item >> \o h, HistoryCap)

\* a save of the dedup window alone
SaveRecentOnly(h) == Take(h, RecentWindow)

\* the value saveHistory writes to the store
SaveHistory(h) == Take(h, HistoryCap)

\* a failed save that takes the mutation back
HistoryRolledBack(before, after) == before

\* the list is assigned before saveHistory() is called, in addToHistory, in
\* the delete handler and in clearHistory(): a throw leaves it as assigned
HistoryAfterFailedSave(before, after) == after

\* clipboardHistory after addToHistory(content, type) at clock value t
AddToHistory(h, flag, content, type, t) ==
    IF Accepts(h, flag, content, type)
    THEN Unshift(h, NewItem(content, type, t))
    ELSE h

(***************************************************************************)
(* The environment: what other applications put on the OS clipboard        *)
(***************************************************************************)
TextA == << "a" >>
TextB == << "b" >>
\* "<b>a</b><br>": three tags
HtmlRich == << "<", "b", ">", "a", "<", "/", "b", ">", "<", "b", "r", ">" >>
Bitmap1 == << "img1" >>

Snapshot(image, html, text) == [image |-> image, html |-> html, text |-> text]

EmptyClipboard == Snapshot(NoImage, EmptyString, EmptyString)

\* a plain text, a rich HTML with its plain-text sibling, and an image with a
\* text beside it; restores add the single-representation clipboards
Snapshots ==
    { Snapshot(NoImage, EmptyString, TextA),
      Snapshot(NoImage, HtmlRich, TextA),
      Snapshot(Bitmap1, EmptyString, TextB) }

\* clock value at process start: later than every id of a persisted history
StartTime == HistoryCap * PollPeriod

\* a persisted history of n entries left by earlier runs: n copies taken one
\* poll period apart, cycling through four contents, newest first
SeedItem(k) ==
    CASE k % 4 = 0 -> NewItem(TextA, "text", k * PollPeriod)
      [] k % 4 = 1 -> NewItem(TextB, "text", k * PollPeriod)
      [] k % 4 = 2 -> NewItem(HtmlRich, "html", k * PollPeriod)
      [] OTHER     -> NewItem(ImageBase64(ToPNG(Bitmap1)), "image", k * PollPeriod)

SeedHistory(n) == [i \in 1..n |-> SeedItem(n - i + 1)]

PersistedHistories == { << >>, SeedHistory(RecentWindow) }

(***************************************************************************)
(* Construction and init(): loadHistory, then startClipboardMonitoring     *)
(* takes the current text and HTML as the baseline                         *)
(***************************************************************************)
\* the setting read when the store holds no 'autoPaste' record
AutoPasteDefaultOff == FALSE

\* defaults: { autoPaste: true } and store.get('autoPaste', true)
AutoPasteDefault == TRUE

\* the persisted 'autoPaste' record: absent, or one of the two values written
SettingsRecords == { "unset", "on", "off" }

\* store.set('autoPaste', enabled)
StoreSetAutoPaste(enabled) == IF enabled THEN "on" ELSE "off"

\* store.get('autoPaste', true)
StoreGetAutoPaste(record) ==
    IF record = "unset" THEN AutoPasteDefault ELSE record = "on"

Platforms == { "darwin", "win32", "linux" }

\* the applications that can be front-most
OwnApp == "Clipboard Manager"
Apps == { OwnApp, "Finder", "Notes" }

\* the channels the preload script lets the page subscribe to
Channels == { "clipboard-updated", "paste-feedback" }

\* ipcRenderer when the preload script has run: no listener on a channel,
\* no subscription made, no event received
NoListeners ==
    [on        |-> [ch \in Channels |-> {}],
     made      |-> [ch \in Channels |-> 0],
     cancelled |-> [ch \in Channels |-> {}],
     emitted   |-> "none",
     called    |-> {}]

\* the window's page before the App component is mounted: useState([]), no
\* listener registered, nothing invoked
NotMounted ==
    /\ uiHistory = << >>
    /\ subscribed = FALSE
    /\ toMain = << >>
    /\ toUI = << >>
    /\ ipcListeners = NoListeners

\* the constructor and init(), over what the store and the desktop hold
InitFrom(persisted, record, os) ==
    /\ settings = record
    /\ autoPasteEnabled = StoreGetAutoPaste(settings)
    /\ previousActiveApp = ""
    /\ frontApp = "Notes"
    /\ platform = os
    /\ pasteTimers = 0
    /\ pasteInner = 0
    /\ notified = NoNotice
    /\ actuated = NoPaste
    /\ failedReads = {}
    /\ saveFailed = NoFailure
    /\ shownFront = ""
    /\ pollInterval = TRUE
    /\ pollTimers = 1
    /\ windows = 1
    /\ ipcHandlers = TRUE
    /\ initCalls = 1
    /\ store = persisted
    /\ clipboardHistory = store
    /\ osClipboard = EmptyClipboard
    /\ lastTextContent = osClipboard.text
    /\ lastHtmlContent = osClipboard.html
    /\ lastImageHash = EmptyString
    /\ isInternalCopy = FALSE
    /\ guardTimers = 0
    /\ clock = StartTime
    /\ reported = NoCandidate
    /\ returned = NoReturn
    /\ sinceRestore = NoWindow
    /\ writeRun = NoRun
    /\ ownWrite = 0
    /\ NotMounted

\* the constructor alone: app.whenReady() has not resolved, init() has not
\* run, the last-seen fields hold their initialisers
Constructed(persisted, record, os) ==
    /\ settings = record
    /\ autoPasteEnabled = StoreGetAutoPaste(settings)
    /\ previousActiveApp = ""
    /\ frontApp = "Notes"
    /\ platform = os
    /\ pasteTimers = 0
    /\ pasteInner = 0
    /\ notified = NoNotice
    /\ actuated = NoPaste
    /\ failedReads = {}
    /\ saveFailed = NoFailure
    /\ shownFront = ""
    /\ pollInterval = FALSE
    /\ pollTimers = 0
    /\ windows = 0
    /\ ipcHandlers = FALSE
    /\ initCalls = 0
    /\ store = persisted
    /\ clipboardHistory = store
    /\ osClipboard = EmptyClipboard
    /\ lastTextContent = EmptyString
    /\ lastHtmlContent = EmptyString
    /\ lastImageHash = EmptyString
    /\ isInternalCopy = FALSE
    /\ guardTimers = 0
    /\ clock = StartTime
    /\ reported = NoCandidate
    /\ returned = NoReturn
    /\ sinceRestore = NoWindow
    /\ writeRun = NoRun
    /\ ownWrite = 0
    /\ NotMounted

\* a start on macOS with auto-paste switched off by an earlier run
InitWith(persisted) == InitFrom(persisted, "off", "darwin")

Init == \E persisted \in PersistedHistories : InitWith(persisted)

\* the observation of a restore window ends with the step after the clear
Observed == IF sinceRestore.phase = "cleared" THEN NoWindow ELSE sinceRestore

(***************************************************************************)
(* Another application writes the clipboard                                *)
(***************************************************************************)
ExternalCopy(s) ==
    /\ osClipboard' = s
    /\ reported' = NoCandidate
    /\ returned' = NoReturn
    /\ sinceRestore' = Observed
    /\ ownWrite' = IF s = osClipboard THEN ownWrite ELSE 0
    /\ Silent
    /\ UNCHANGED << clipboardHistory, store, lastTextContent, lastImageHash,
                    lastHtmlContent, isInternalCopy, guardTimers, clock >>
    /\ UNCHANGED pasteVars
    /\ UNCHANGED lifeVars
    /\ Transport

(***************************************************************************)
(* The setInterval callback of startClipboardMonitoring                    *)
(***************************************************************************)
\* a callback without the early return
TickNeverSkipped == FALSE

\* the early return at the top of the callback
TickSkipped == isInternalCopy

\* !image.isEmpty() && imageHash !== this.lastImageHash, on the snapshot the
\* reads of this tick return
HasNewImage(snap) ==
    /\ snap.image # NoImage
    /\ Md5(ToPNG(snap.image)) # lastImageHash

TickContent(snap) == CurrentContent(snap.html, snap.text)

TickType(snap) == ContentType(snap.html, snap.text)

\* a comparison with the text slot whatever the type
LastTextWhateverType(snap) == lastTextContent

\* contentType === 'html' ? this.lastHtmlContent : this.lastTextContent
LastContent(snap) ==
    IF TickType(snap) = "html" THEN lastHtmlContent ELSE lastTextContent

\* currentContent && currentContent !== lastContent, reached without a new image
HasNewText(snap) ==
    /\ ~HasNewImage(snap)
    /\ TickContent(snap) # EmptyString
    /\ TickContent(snap) # LastContent(snap)

\* what the callback passes to addToHistory, if anything
Candidate(snap) ==
    IF TickSkipped THEN NoCandidate
    ELSE IF HasNewImage(snap)
         THEN [content |-> ImageBase64(ToPNG(snap.image)), type |-> "image"]
    ELSE IF HasNewText(snap)
         THEN [content |-> TickContent(snap), type |-> TickType(snap)]
    ELSE NoCandidate

\* Date.now() in addToHistory: inserts are made by poll ticks only, so two
\* reads are at least one poll period apart
DateNow == clock + PollPeriod

\* the callback of an active timer, over the snapshot its clipboard reads
\* return; failed names the reads that failed, saved tells whether the
\* store.set of saveHistory() returned.  When it throws, addToHistory ends
\* behind the unshift and the slice, and the callback ends with it: before
\* the notification and before the assignment to the last-seen slot.
PollTickWith(snap, failed, saved) ==
    LET c == Candidate(snap)
        accepted == /\ c # NoCandidate
                    /\ Accepts(clipboardHistory, isInternalCopy, c.content, c.type)
        thrown == accepted /\ ~saved
    IN  /\ pollTimers > 0
        /\ saved \/ accepted
        /\ reported' = c
        /\ failedReads' = failed
        /\ saveFailed' = IF thrown THEN [op |-> "insert", arg |-> DateNow]
                         ELSE NoFailure
        /\ clock' = IF accepted THEN DateNow ELSE clock
        /\ clipboardHistory' =
               IF c = NoCandidate THEN clipboardHistory
               ELSE IF thrown
               THEN HistoryAfterFailedSave(
                        clipboardHistory,
                        AddToHistory(clipboardHistory, isInternalCopy,
                                     c.content, c.type, DateNow))
               ELSE AddToHistory(clipboardHistory, isInternalCopy,
                                 c.content, c.type, DateNow)
        /\ store' = IF accepted /\ saved THEN SaveHistory(clipboardHistory')
                    ELSE store
        /\ lastImageHash' =
               IF c.type = "image" /\ ~thrown THEN Md5(ToPNG(snap.image))
               ELSE lastImageHash
        /\ lastHtmlContent' =
               IF c.type = "html" /\ ~thrown THEN c.content
               ELSE lastHtmlContent
        /\ lastTextContent' =
               IF c.type = "text" /\ ~thrown THEN c.content
               ELSE lastTextContent
        /\ writeRun' = IF writeRun.n >= 1 /\ ~TickSkipped
                       THEN [writeRun EXCEPT
                                !.inserted = IF accepted THEN @ + 1 ELSE @,
                                !.polled = TRUE]
                       ELSE writeRun
        /\ sinceRestore' = IF sinceRestore.phase = "open" /\ TickSkipped
                           THEN [sinceRestore EXCEPT !.ticked = TRUE]
                           ELSE Observed
        /\ ownWrite' = IF ownWrite >= 1 /\ ~TickSkipped THEN 2 ELSE ownWrite
        /\ returned' = NoReturn
        /\ notified' = IF accepted /\ saved THEN Notice(clipboardHistory')
                       ELSE NoNotice
        /\ actuated' = NoPaste
        /\ UNCHANGED << isInternalCopy, guardTimers, osClipboard >>
        /\ UNCHANGED pasteVars
        /\ UNCHANGED lifeVars
        /\ Transport

\* the callback when the store takes what saveHistory() writes
PollTickOn(snap, failed) == PollTickWith(snap, failed, TRUE)

\* a tick whose reads return what the clipboard holds
PollTick == PollTickOn(osClipboard, {})

\* a tick whose insert is not persisted: store.set throws
UnsavedPollTick == PollTickWith(osClipboard, {}, FALSE)

\* the representations a read can fail on
Representations == { "image", "html", "text" }

\* what the reads return when those of failed fail without throwing: the
\* empty image, the empty string
ReadWithFailures(clip, failed) ==
    [image |-> IF "image" \in failed THEN NoImage ELSE clip.image,
     html  |-> IF "html" \in failed THEN EmptyString ELSE clip.html,
     text  |-> IF "text" \in failed THEN EmptyString ELSE clip.text]

\* the callback has no try/catch: a read that throws ends it where it
\* stands, before any assignment, and the interval stays registered
AbortedTick(failed) ==
    /\ failedReads' = failed
    /\ saveFailed' = NoFailure
    /\ reported' = NoCandidate
    /\ returned' = NoReturn
    /\ notified' = NoNotice
    /\ actuated' = NoPaste
    /\ sinceRestore' = Observed
    /\ UNCHANGED << clipboardHistory, store, lastTextContent, lastImageHash,
                    lastHtmlContent, isInternalCopy, guardTimers, osClipboard,
                    clock, writeRun, ownWrite >>
    /\ UNCHANGED pasteVars
    /\ UNCHANGED lifeVars
    /\ Transport

\* the reads the callback makes: the image always, the HTML and the text
\* when the image read brought no new image
ReadsMade(failed) ==
    IF HasNewImage(ReadWithFailures(osClipboard, failed \cap { "image" }))
    THEN { "image" }
    ELSE Representations

\* a tick on which the reads of failed fail, each one by throwing or by
\* returning the empty value; a guarded tick reads nothing
FailedPollTick(failed, thrown) ==
    /\ pollTimers > 0
    /\ ~TickSkipped
    /\ failed # {}
    /\ failed \subseteq ReadsMade(failed)
    /\ IF thrown
       THEN AbortedTick(failed)
       ELSE PollTickOn(ReadWithFailures(osClipboard, failed), failed)

(***************************************************************************)
(* ipcMain.handle('copy-to-clipboard'): restore an item                    *)
(***************************************************************************)
\* a restore that leaves the flag alone
InternalCopyNotSet == isInternalCopy

\* this.isInternalCopy = true
InternalCopyOnRestore == TRUE

\* the items the picker can hand back: entries near the front of the history
\* and its oldest entry
Pickable ==
    { [content |-> clipboardHistory[i].content, type |-> clipboardHistory[i].type] :
        i \in (1..Min(PickWindow, Len(clipboardHistory)))
                 \cup ({ Len(clipboardHistory) } \ { 0 }) }

\* the buffer the image branch decodes from the item's data URL
RestoredBuffer(item) == FromBase64(StripDataUrl(item.content))

\* clipboard.writeImage / writeHTML / writeText: what the OS clipboard holds
\* after the write
WrittenClipboard(item) ==
    IF item.type = "image"
    THEN Snapshot(CreateFromBuffer(RestoredBuffer(item)), EmptyString, EmptyString)
    ELSE IF item.type = "html"
    THEN Snapshot(NoImage, item.content, EmptyString)
    ELSE Snapshot(NoImage, EmptyString, item.content)

\* a restore that leaves the last-seen slots alone
LastSeenUntouched(item) ==
    [text |-> lastTextContent, html |-> lastHtmlContent, hash |-> lastImageHash]

\* the last-seen slots after the assignments of the branch taken
LastSeenAfterRestore(item) ==
    IF item.type = "image"
    THEN [text |-> lastTextContent, html |-> lastHtmlContent,
          hash |-> Md5(RestoredBuffer(item))]
    ELSE IF item.type = "html"
    THEN [text |-> item.content, html |-> item.content, hash |-> lastImageHash]
    ELSE [text |-> item.content, html |-> lastHtmlContent, hash |-> lastImageHash]

\* a restore that moves the restored entry to the front of the history
HistoryWithRestoredInFront(h, item) ==
    SelectSeq(h, LAMBDA e : e.content = item.content /\ e.type = item.type)
        \o SelectSeq(h, LAMBDA e : ~(e.content = item.content /\ e.type = item.type))

\* the handler has no statement on this.clipboardHistory and no saveHistory()
HistoryAfterRestore(h, item) == h

\* a restore that pastes whatever the setting is
PasteAlwaysScheduled(enabled) == TRUE

\* if (this.autoPasteEnabled) this.simulatePaste()
PasteScheduled(enabled) == enabled

\* the handler, over what the OS clipboard holds after its write call, taken
\* while fewer than limit clearing timers of earlier restores are pending
CopyToClipboardUpTo(item, clip, limit) ==
    /\ guardTimers < limit
    /\ pasteTimers + pasteInner < MaxTimers
    /\ isInternalCopy' = InternalCopyOnRestore
    /\ osClipboard' = clip
    /\ lastTextContent' = LastSeenAfterRestore(item).text
    /\ lastHtmlContent' = LastSeenAfterRestore(item).html
    /\ lastImageHash' = LastSeenAfterRestore(item).hash
    /\ guardTimers' = guardTimers + 1
    /\ sinceRestore' = [phase |-> "open", ticked |-> FALSE, hist |-> clipboardHistory]
    /\ ownWrite' = IF clip = WrittenClipboard(item) THEN 1 ELSE ownWrite
    /\ reported' = NoCandidate
    /\ returned' = NoReturn
    /\ clipboardHistory' = HistoryAfterRestore(clipboardHistory, item)
    /\ store' = HistoryAfterRestore(store, item)
    /\ pasteTimers' = IF PasteScheduled(autoPasteEnabled)
                      THEN pasteTimers + 1
                      ELSE pasteTimers
    /\ Silent
    /\ UNCHANGED << clock, writeRun, autoPasteEnabled, settings,
                    previousActiveApp, frontApp, platform, pasteInner,
                    shownFront >>
    /\ UNCHANGED lifeVars
    /\ Transport

CopyToClipboardWith(item, clip) == CopyToClipboardUpTo(item, clip, MaxTimers)

\* a restore whose write takes effect
CopyToClipboard(item) == CopyToClipboardWith(item, WrittenClipboard(item))

\* a write call that throws ends the handler behind its first statement: the
\* flag is set, no slot is assigned, no timer is scheduled, nothing is pasted
AbortedCopyToClipboard(item) ==
    /\ isInternalCopy' = InternalCopyOnRestore
    /\ reported' = NoCandidate
    /\ returned' = [op |-> "rejected", arg |-> 0, list |-> << >>]
    /\ sinceRestore' = NoWindow
    /\ Silent
    /\ UNCHANGED << clipboardHistory, store, lastTextContent, lastImageHash,
                    lastHtmlContent, guardTimers, osClipboard, clock, writeRun,
                    ownWrite >>
    /\ UNCHANGED pasteVars
    /\ UNCHANGED lifeVars
    /\ Transport

\* a restore whose clipboard write fails: it throws, or it returns and
\* leaves the clipboard as it was
FailedCopyToClipboard(item, thrown) ==
    IF thrown
    THEN AbortedCopyToClipboard(item)
    ELSE CopyToClipboardWith(item, osClipboard)

\* the setTimeout(..., 100) callback of a restore
GuardClear ==
    /\ guardTimers > 0
    /\ guardTimers' = guardTimers - 1
    /\ isInternalCopy' = FALSE
    /\ sinceRestore' = IF sinceRestore.phase = "open"
                       THEN [sinceRestore EXCEPT !.phase = "cleared"]
                       ELSE Observed
    /\ reported' = NoCandidate
    /\ returned' = NoReturn
    /\ Silent
    /\ UNCHANGED << clipboardHistory, store, lastTextContent, lastImageHash,
                    lastHtmlContent, osClipboard, clock, writeRun, ownWrite >>
    /\ UNCHANGED pasteVars
    /\ UNCHANGED lifeVars
    /\ Transport

(***************************************************************************)
(* ipcMain.handle('delete-clipboard-item'), clearHistory and               *)
(* ipcMain.handle('clear-clipboard-history')                               *)
(***************************************************************************)
\* a removal of the entry and of everything behind it
FilterOutFrom(h, id) == SelectSeq(h, LAMBDA item : item.id > id)

\* a removal that falls back on the oldest entry when no id matches
FilterOutOrOldest(h, id) ==
    IF \E i \in 1..Len(h) : h[i].id = id
    THEN SelectSeq(h, LAMBDA item : item.id # id)
    ELSE SubSeq(h, 1, Len(h) - 1)

\* clipboardHistory.filter(item => item.id !== id)
FilterOut(h, id) == SelectSeq(h, LAMBDA item : item.id # id)

\* the ids the picker can ask to delete: entries near the front, the oldest
\* entry, and an id no entry carries
Deletable ==
    { clipboardHistory[i].id : i \in 1..Min(PickWindow, Len(clipboardHistory)) }
        \cup { clipboardHistory[i].id : i \in { Len(clipboardHistory) } \ { 0 } }
        \cup { 0 }

DeleteClipboardItem(id) ==
    /\ clipboardHistory' = FilterOut(clipboardHistory, id)
    /\ store' = SaveHistory(clipboardHistory')
    /\ returned' = [op |-> "delete", arg |-> id, list |-> clipboardHistory']
    /\ reported' = NoCandidate
    /\ sinceRestore' = NoWindow
    /\ Silent
    /\ UNCHANGED pasteVars
    /\ UNCHANGED lifeVars
    /\ Transport
    /\ UNCHANGED << lastTextContent, lastImageHash, lastHtmlContent,
                    isInternalCopy, guardTimers, osClipboard, clock, writeRun,
                    ownWrite >>

\* clearHistory(), as the tray menu's 'Clear History' calls it
ClearHistory ==
    /\ clipboardHistory' = << >>
    /\ store' = SaveHistory(clipboardHistory')
    /\ returned' = NoReturn
    /\ reported' = NoCandidate
    /\ sinceRestore' = NoWindow
    /\ notified' = Notice(clipboardHistory')
    /\ actuated' = NoPaste
    /\ failedReads' = {}
    /\ saveFailed' = NoFailure
    /\ UNCHANGED pasteVars
    /\ UNCHANGED lifeVars
    /\ Transport
    /\ UNCHANGED << lastTextContent, lastImageHash, lastHtmlContent,
                    isInternalCopy, guardTimers, osClipboard, clock, writeRun,
                    ownWrite >>

ClearClipboardHistory ==
    /\ clipboardHistory' = << >>
    /\ store' = SaveHistory(clipboardHistory')
    /\ returned' = [op |-> "clear", arg |-> 0, list |-> clipboardHistory']
    /\ reported' = NoCandidate
    /\ sinceRestore' = NoWindow
    /\ notified' = Notice(clipboardHistory')
    /\ actuated' = NoPaste
    /\ failedReads' = {}
    /\ saveFailed' = NoFailure
    /\ UNCHANGED pasteVars
    /\ UNCHANGED lifeVars
    /\ Transport
    /\ UNCHANGED << lastTextContent, lastImageHash, lastHtmlContent,
                    isInternalCopy, guardTimers, osClipboard, clock, writeRun,
                    ownWrite >>

(***************************************************************************)
(* ipcMain.handle('get-clipboard-history'), and the history operations     *)
(* when store.set throws inside saveHistory(): the handlers have no        *)
(* try/catch, so the statements behind saveHistory() are not reached       *)
(***************************************************************************)
GetClipboardHistory ==
    /\ returned' = [op |-> "get-history", arg |-> 0, list |-> clipboardHistory]
    /\ reported' = NoCandidate
    /\ sinceRestore' = Observed
    /\ Silent
    /\ UNCHANGED << clipboardHistory, store, lastTextContent, lastImageHash,
                    lastHtmlContent, isInternalCopy, guardTimers, osClipboard,
                    clock, writeRun, ownWrite >>
    /\ UNCHANGED pasteVars
    /\ UNCHANGED lifeVars
    /\ Transport

\* the reply of an IPC call whose handler threw: the invoke is rejected
Rejected(id) == [op |-> "rejected", arg |-> id, list |-> << >>]

\* what a delete or a clear leaves when its save throws
UnsavedMutation(op, id, after) ==
    /\ clipboardHistory' = HistoryAfterFailedSave(clipboardHistory, after)
    /\ saveFailed' = [op |-> op, arg |-> id]
    /\ reported' = NoCandidate
    /\ sinceRestore' = NoWindow
    /\ notified' = NoNotice
    /\ actuated' = NoPaste
    /\ failedReads' = {}
    /\ UNCHANGED pasteVars
    /\ UNCHANGED lifeVars
    /\ UNCHANGED << store, lastTextContent, lastImageHash, lastHtmlContent,
                    isInternalCopy, guardTimers, osClipboard, clock, writeRun,
                    ownWrite >>

UnsavedDelete(id) ==
    /\ UnsavedMutation("delete", id, FilterOut(clipboardHistory, id))
    /\ returned' = Rejected(id)
    /\ Transport

\* clearHistory() from the tray menu
UnsavedClearHistory ==
    /\ UnsavedMutation("clear", 0, << >>)
    /\ returned' = NoReturn
    /\ Transport

\* clearHistory() from the 'clear-clipboard-history' handler
UnsavedClearClipboardHistory ==
    /\ UnsavedMutation("clear", 0, << >>)
    /\ returned' = Rejected(0)
    /\ Transport

(***************************************************************************)
(* Quit and relaunch: a new ClipboardManager is constructed and init() runs *)
(***************************************************************************)
Restart ==
    /\ clipboardHistory' = store
    /\ lastTextContent' = osClipboard.text
    /\ lastHtmlContent' = osClipboard.html
    /\ lastImageHash' = EmptyString
    /\ isInternalCopy' = FALSE
    /\ guardTimers' = 0
    /\ reported' = NoCandidate
    /\ returned' = NoReturn
    /\ sinceRestore' = NoWindow
    /\ ownWrite' = 0
    /\ autoPasteEnabled' = StoreGetAutoPaste(settings)
    /\ previousActiveApp' = ""
    /\ pasteTimers' = 0
    /\ pasteInner' = 0
    /\ shownFront' = ""
    /\ pollInterval' = TRUE
    /\ pollTimers' = 1
    /\ windows' = 1
    /\ ipcHandlers' = TRUE
    /\ initCalls' = 1
    /\ Silent
    /\ uiHistory' = << >>
    /\ subscribed' = FALSE
    /\ toMain' = << >>
    /\ toUI' = << >>
    /\ ipcListeners' = NoListeners
    /\ UNCHANGED << store, osClipboard, clock, writeRun, settings, frontApp,
                    platform >>

(***************************************************************************)
(* The application's lifecycle: init() from app.whenReady() and from       *)
(* app.on('activate'), cleanup() from app.on('before-quit')                *)
(***************************************************************************)
\* an ipcMain that takes a second handler for a channel
SecondHandlerTaken(registered) == FALSE

\* setupIPC(): ipcMain.handle throws when the channel has a handler already,
\* which is the case from the second call on
SetupIPCThrows(registered) == registered

\* init(): createWindow, createTray, setupIPC, setupGlobalShortcuts,
\* startClipboardMonitoring; a throw of setupIPC ends it there.
\* startClipboardMonitoring takes the text and the HTML baseline and assigns
\* a new interval to this.pollInterval without clearing the one it holds.
InitApp ==
    /\ initCalls < MaxInits
    /\ initCalls' = initCalls + 1
    /\ windows' = windows + 1
    /\ IF SetupIPCThrows(ipcHandlers)
       THEN UNCHANGED << ipcHandlers, lastTextContent, lastHtmlContent,
                         pollInterval, pollTimers >>
       ELSE /\ ipcHandlers' = TRUE
            /\ lastTextContent' = osClipboard.text
            /\ lastHtmlContent' = osClipboard.html
            /\ pollInterval' = TRUE
            /\ pollTimers' = pollTimers + 1
    /\ reported' = NoCandidate
    /\ returned' = NoReturn
    /\ sinceRestore' = Observed
    /\ Silent
    /\ UNCHANGED << clipboardHistory, store, lastImageHash, isInternalCopy,
                    guardTimers, osClipboard, clock, writeRun, ownWrite >>
    /\ UNCHANGED pasteVars
    /\ Transport

\* app.whenReady().then(...): once
Ready == initCalls = 0 /\ InitApp

\* app.on('activate'), once the application is ready
Activate ==
    /\ initCalls > 0
    /\ windows = 0
    /\ InitApp

\* the window is closed: BrowserWindow.getAllWindows() loses it; on macOS
\* 'window-all-closed' does not quit
CloseWindow ==
    /\ windows > 0
    /\ windows' = windows - 1
    /\ reported' = NoCandidate
    /\ returned' = NoReturn
    /\ sinceRestore' = Observed
    /\ Silent
    /\ UNCHANGED << clipboardHistory, store, lastTextContent, lastImageHash,
                    lastHtmlContent, isInternalCopy, guardTimers, osClipboard,
                    clock, writeRun, ownWrite, pollInterval, pollTimers,
                    ipcHandlers, initCalls >>
    /\ UNCHANGED pasteVars
    /\ Transport

\* cleanup(): stopClipboardMonitoring clears the interval this.pollInterval
\* holds, if any, and sets the field to null
Cleanup ==
    /\ initCalls > 0
    /\ pollTimers' = IF pollInterval THEN pollTimers - 1 ELSE pollTimers
    /\ pollInterval' = FALSE
    /\ reported' = NoCandidate
    /\ returned' = NoReturn
    /\ sinceRestore' = Observed
    /\ Silent
    /\ UNCHANGED << clipboardHistory, store, lastTextContent, lastImageHash,
                    lastHtmlContent, isInternalCopy, guardTimers, osClipboard,
                    clock, writeRun, ownWrite, windows, ipcHandlers,
                    initCalls >>
    /\ UNCHANGED pasteVars
    /\ Transport

(***************************************************************************)
(* The desktop, showWindow and the auto-paste setting                      *)
(***************************************************************************)
\* another application, or this one, comes to the front
Focus(app) ==
    /\ app # frontApp
    /\ frontApp' = app
    /\ reported' = NoCandidate
    /\ returned' = NoReturn
    /\ sinceRestore' = Observed
    /\ Silent
    /\ UNCHANGED << clipboardHistory, store, lastTextContent, lastImageHash,
                    lastHtmlContent, isInternalCopy, guardTimers, osClipboard,
                    clock, writeRun, ownWrite, autoPasteEnabled, settings,
                    previousActiveApp, platform, pasteTimers, pasteInner,
                    shownFront >>
    /\ UNCHANGED lifeVars
    /\ Transport

\* storePreviousActiveApp(): queried tells whether the osascript call returned
StorePreviousActiveApp(queried) ==
    IF platform = "darwin" /\ queried /\ frontApp # OwnApp
    THEN frontApp
    ELSE previousActiveApp

\* showWindow(), from the tray, the tray menu or the global shortcut
ShowWindow(queried) ==
    /\ previousActiveApp' = StorePreviousActiveApp(queried)
    /\ shownFront' = frontApp
    /\ frontApp' = OwnApp
    /\ notified' = Notice(clipboardHistory)
    /\ actuated' = NoPaste
    /\ failedReads' = {}
    /\ saveFailed' = NoFailure
    /\ reported' = NoCandidate
    /\ returned' = NoReturn
    /\ sinceRestore' = Observed
    /\ UNCHANGED << clipboardHistory, store, lastTextContent, lastImageHash,
                    lastHtmlContent, isInternalCopy, guardTimers, osClipboard,
                    clock, writeRun, ownWrite, autoPasteEnabled, settings,
                    platform, pasteTimers, pasteInner >>
    /\ UNCHANGED lifeVars
    /\ Transport

\* ipcMain.handle('get-auto-paste-setting')
GetAutoPasteSetting ==
    /\ returned' = [op |-> "get-auto-paste", arg |-> 0, list |-> << >>,
                    reply |-> autoPasteEnabled]
    /\ reported' = NoCandidate
    /\ sinceRestore' = Observed
    /\ Silent
    /\ UNCHANGED << clipboardHistory, store, lastTextContent, lastImageHash,
                    lastHtmlContent, isInternalCopy, guardTimers, osClipboard,
                    clock, writeRun, ownWrite >>
    /\ UNCHANGED pasteVars
    /\ UNCHANGED lifeVars
    /\ Transport

\* ipcMain.handle('set-auto-paste-setting')
SetAutoPasteSetting(enabled) ==
    /\ autoPasteEnabled' = enabled
    /\ settings' = StoreSetAutoPaste(enabled)
    /\ returned' = [op |-> "set-auto-paste", arg |-> 0, list |-> << >>,
                    reply |-> enabled]
    /\ reported' = NoCandidate
    /\ sinceRestore' = Observed
    /\ Silent
    /\ UNCHANGED << clipboardHistory, store, lastTextContent, lastImageHash,
                    lastHtmlContent, isInternalCopy, guardTimers, osClipboard,
                    clock, writeRun, ownWrite, previousActiveApp, frontApp,
                    platform, pasteTimers, pasteInner, shownFront >>
    /\ UNCHANGED lifeVars
    /\ Transport

(***************************************************************************)
(* simulatePaste: the 300 ms callback and, on macOS, the 500 ms callback   *)
(* that follows a successful reactivation.  Each execSync either returns   *)
(* or throws.                                                              *)
(***************************************************************************)
Pasted(target, feedback) ==
    [outcome |-> "pasted", keystroke |-> target, feedback |-> feedback]

Failed(feedback) ==
    [outcome |-> "failed", keystroke |-> "", feedback |-> feedback]

Skipped == [outcome |-> "skipped", keystroke |-> "", feedback |-> "none"]

Activated == [outcome |-> "activated", keystroke |-> "", feedback |-> "none"]

\* this.previousActiveApp && this.previousActiveApp !== 'Clipboard Manager'
KnownPreviousApp == previousActiveApp # "" /\ previousActiveApp # OwnApp

\* the darwin branch with a known previous application: activate it, and on
\* a failure of that fall back on a keystroke sent at once
ReactivateAndPaste(activated, typed) ==
    IF activated THEN Activated
    ELSE IF typed THEN Pasted(frontApp, "success")
    ELSE Failed("failure")

\* the darwin branch without one: ask for the front-most application, leave
\* Finder alone, send the keystroke; a throw ends in the silent outer catch
PasteIntoFrontApp(queried, typed) ==
    IF ~queried THEN Failed("none")
    ELSE IF frontApp = "Finder" THEN Skipped
    ELSE IF typed THEN Pasted(frontApp, "success")
    ELSE Failed("none")

\* the win32 (SendKeys) and linux (xdotool) branches: no feedback is sent
PasteWithUtility(typed) ==
    IF typed THEN Pasted(frontApp, "none") ELSE Failed("none")

\* what the 300 ms callback does
PasteStep(activated, queried, typed) ==
    IF platform = "darwin"
    THEN IF KnownPreviousApp
         THEN ReactivateAndPaste(activated, typed)
         ELSE PasteIntoFrontApp(queried, typed)
    ELSE PasteWithUtility(typed)

\* a paste failure that wipes the clipboard
ClipboardLostOnFailure(clip, step) ==
    IF step.outcome = "failed" THEN EmptyClipboard ELSE clip

\* simulatePaste has no clipboard call: the clipboard is what it was
ClipboardAfterPaste(clip, step) == clip

\* the setTimeout(..., 300) callback of simulatePaste
PasteTimer(activated, queried, typed) ==
    LET step == PasteStep(activated, queried, typed)
    IN  /\ pasteTimers > 0
        /\ pasteTimers' = pasteTimers - 1
        /\ actuated' = step
        /\ failedReads' = {}
        /\ saveFailed' = NoFailure
        /\ pasteInner' = IF step.outcome = "activated"
                         THEN pasteInner + 1
                         ELSE pasteInner
        /\ frontApp' = IF step.outcome = "activated"
                       THEN previousActiveApp
                       ELSE frontApp
        /\ osClipboard' = ClipboardAfterPaste(osClipboard, step)
        /\ notified' = NoNotice
        /\ reported' = NoCandidate
        /\ returned' = NoReturn
        /\ sinceRestore' = Observed
        /\ UNCHANGED << clipboardHistory, store, lastTextContent,
                        lastImageHash, lastHtmlContent, isInternalCopy,
                        guardTimers, clock, writeRun, ownWrite,
                        autoPasteEnabled, settings, previousActiveApp,
                        platform, shownFront >>
        /\ UNCHANGED lifeVars
        /\ Transport

\* the inner callback: checkIfTextFieldActive() (its result is not used),
\* then the keystroke, then the feedback of the branch taken
DelayedPaste(typed) ==
    IF typed THEN Pasted(frontApp, "success") ELSE Failed("failure")

\* the setTimeout(..., 500) callback of simulatePaste
PasteInnerTimer(typed) ==
    LET step == DelayedPaste(typed)
    IN  /\ pasteInner > 0
        /\ pasteInner' = pasteInner - 1
        /\ actuated' = step
        /\ failedReads' = {}
        /\ saveFailed' = NoFailure
        /\ osClipboard' = ClipboardAfterPaste(osClipboard, step)
        /\ notified' = NoNotice
        /\ reported' = NoCandidate
        /\ returned' = NoReturn
        /\ sinceRestore' = Observed
        /\ UNCHANGED << clipboardHistory, store, lastTextContent,
                        lastImageHash, lastHtmlContent, isInternalCopy,
                        guardTimers, clock, writeRun, ownWrite,
                        autoPasteEnabled, settings, previousActiveApp,
                        frontApp, platform, pasteTimers, shownFront >>
        /\ UNCHANGED lifeVars
        /\ Transport

(***************************************************************************)
(* Specifications                                                          *)
(***************************************************************************)
\* the model stops inserting after MaxInserts inserts
WithinBudget == clock' <= StartTime + MaxInserts * PollPeriod

Next ==
    \/ \E s \in Snapshots : ExternalCopy(s) /\ UNCHANGED writeRun
    \/ PollTick /\ WithinBudget
    \/ \E item \in Pickable : CopyToClipboard(item)
    \/ GuardClear
    \/ \E id \in Deletable : DeleteClipboardItem(id)
    \/ ClearHistory
    \/ ClearClipboardHistory
    \/ Restart

\* every operation, from an empty or a short persisted history
Spec == Init /\ [][Next]_vars

\* deletes are explored on a full history: the next insert presses against
\* the cap again
NearCap == Len(clipboardHistory) = HistoryCap

NextFull ==
    \/ \E s \in Snapshots : ExternalCopy(s) /\ UNCHANGED writeRun
    \/ PollTick /\ WithinBudget
    \/ \E item \in Pickable : CopyToClipboard(item)
    \/ GuardClear
    \/ \E id \in Deletable : NearCap /\ DeleteClipboardItem(id)
    \/ ClearClipboardHistory

\* poll ticks, restores, deletes and clears, from a persisted history one
\* entry below the cap
SpecFull == InitWith(SeedHistory(HistoryCap - 1)) /\ [][NextFull]_vars

\* the actuator: restores with either setting on each platform, with the
\* desktop changing focus, from a short persisted history
NextPaste ==
    \/ \E app \in Apps : Focus(app)
    \/ \E queried \in BOOLEAN : ShowWindow(queried)
    \/ \E enabled \in BOOLEAN : SetAutoPasteSetting(enabled)
    \/ \E item \in Pickable : CopyToClipboard(item)
    \/ GuardClear
    \/ \E activated, queried, typed \in BOOLEAN :
          PasteTimer(activated, queried, typed)
    \/ \E typed \in BOOLEAN : PasteInnerTimer(typed)
    \/ PollTick /\ WithinBudget

InitPaste ==
    \E record \in SettingsRecords, os \in Platforms :
        InitFrom(SeedHistory(RecentWindow), record, os)

SpecPaste == InitPaste /\ [][NextPaste]_vars

\* the poll loop, external copies, restores and the guard timer
NextMonitor ==
    \/ \E s \in Snapshots : ExternalCopy(s) /\ UNCHANGED writeRun
    \/ PollTick /\ WithinBudget
    \/ \E item \in Pickable : CopyToClipboard(item)
    \/ GuardClear

SpecMonitor == Init /\ [][NextMonitor]_vars

\* the same with restores whose clipboard write can fail; a scheduled timer
\* callback runs: the event loop does not starve it
NextGuard ==
    \/ NextMonitor
    \/ \E item \in Pickable, thrown \in BOOLEAN :
          FailedCopyToClipboard(item, thrown)

SpecGuard == Init /\ [][NextGuard]_vars /\ WF_vars(GuardClear)

\* the lifecycle on macOS, from construction: ready, window closed,
\* activate, cleanup, with external copies and the poll loop
NextLife ==
    \/ Ready
    \/ Activate
    \/ CloseWindow
    \/ Cleanup
    \/ \E s \in Snapshots : ExternalCopy(s) /\ UNCHANGED writeRun
    \/ PollTick /\ WithinBudget

InitLife ==
    \E persisted \in PersistedHistories : Constructed(persisted, "off", "darwin")

SpecLife == InitLife /\ [][NextLife]_vars

\* what the clipboard can hold when the application is launched
Bitmap2 == << "img2" >>

StartClipboards ==
    { Snapshot(image, html, text) :
        image \in { NoImage, Bitmap1, Bitmap2 },
        html \in { EmptyString, HtmlRich, TextA },
        text \in { EmptyString, TextA, TextB } }

\* a launch: the clipboard is written before init() runs and not after
NextBaseline ==
    \/ \E s \in StartClipboards :
          initCalls = 0 /\ ExternalCopy(s) /\ UNCHANGED writeRun
    \/ Ready
    \/ PollTick /\ WithinBudget

SpecBaseline == InitLife /\ [][NextBaseline]_vars

\* a restore taken while the clearing timers of earlier restores may still
\* be pending: the handler cancels no timer and schedules one of its own
OverlappingCopyToClipboard(item) ==
    CopyToClipboardUpTo(item, WrittenClipboard(item), MaxOverlap)

\* restores less than the guard delay apart; timers of one delay fire in the
\* order they were scheduled, so the clearing timer that fires while another
\* one is pending is the earlier restore's
NextOverlap ==
    \/ \E s \in Snapshots : ExternalCopy(s) /\ UNCHANGED writeRun
    \/ PollTick /\ WithinBudget
    \/ \E item \in Pickable : OverlappingCopyToClipboard(item)
    \/ GuardClear

SpecOverlap == Init /\ [][NextOverlap]_vars

(***************************************************************************)
(* The renderer: the App component, its invokes and its listener.  The     *)
(* main process sends its replies and its 'clipboard-updated' messages to  *)
(* the window's frame over one channel, which delivers them in the order   *)
(* they were sent; the invokes reach the main process in the order the App *)
(* made them.                                                              *)
(***************************************************************************)
\* a step of the renderer or of the user at the window: the main process
\* does not run
RendererStep ==
    /\ reported' = NoCandidate
    /\ returned' = NoReturn
    /\ sinceRestore' = Observed
    /\ Silent
    /\ UNCHANGED << clipboardHistory, store, lastTextContent, lastImageHash,
                    lastHtmlContent, isInternalCopy, guardTimers, osClipboard,
                    clock, writeRun, ownWrite >>
    /\ UNCHANGED pasteVars
    /\ UNCHANGED lifeVars

\* ipcRenderer.removeAllListeners(channel)
RemoveAllListeners(l, channel) == [l EXCEPT !.on[channel] = {}]

\* onClipboardUpdated(callback) / onPasteFeedback(callback): ipcRenderer.on
\* adds a listener that calls the callback; callbacks are numbered in the
\* order they were subscribed
Registered(l, channel) ==
    [l EXCEPT !.made[channel] = @ + 1,
              !.on[channel] = @ \cup { l.made[channel] + 1 },
              !.emitted = "none",
              !.called = {}]

\* a component subscribes a callback on a channel
Subscribe(channel) ==
    /\ ipcListeners.made[channel] < MaxSubs
    /\ ipcListeners' = Registered(ipcListeners, channel)
    /\ UNCHANGED << uiHistory, subscribed, toMain, toUI >>
    /\ RendererStep

\* the handle onClipboardUpdated / onPasteFeedback returned for callback is
\* called
Unsubscribe(channel, callback) ==
    /\ callback \in 1..ipcListeners.made[channel]
    /\ ipcListeners' =
           [RemoveAllListeners(ipcListeners, channel) EXCEPT
               !.cancelled[channel] = @ \cup { callback },
               !.emitted = "none",
               !.called = {}]
    /\ UNCHANGED << uiHistory, subscribed, toMain, toUI >>
    /\ RendererStep

\* an event of the channel arrives: every listener on it calls its callback
Emit(channel) ==
    /\ ipcListeners' = [ipcListeners EXCEPT
                           !.emitted = channel,
                           !.called = ipcListeners.on[channel]]
    /\ UNCHANGED << uiHistory, subscribed, toMain, toUI >>
    /\ RendererStep

\* subscriptions, cancellations and events on the two channels
NextSubs ==
    \/ \E ch \in Channels : Subscribe(ch)
    \/ \E ch \in Channels, c \in 1..MaxSubs : Unsubscribe(ch, c)
    \/ \E ch \in Channels : Emit(ch)

SpecSubs == Init /\ [][NextSubs]_vars

\* the useEffect of App on mount: loadHistory() invokes
\* 'get-clipboard-history', then onClipboardUpdated registers the listener
Mount ==
    /\ ~subscribed
    /\ windows > 0
    /\ subscribed' = TRUE
    /\ toMain' = Append(toMain, [op |-> "get-history", arg |-> 0])
    /\ ipcListeners' = Registered(Registered(ipcListeners, "clipboard-updated"),
                                  "paste-feedback")
    /\ UNCHANGED << uiHistory, toUI >>
    /\ RendererStep

\* isLoading is false: the reply to loadHistory()'s invoke has arrived, the
\* list and its buttons are rendered
Loaded ==
    /\ subscribed
    /\ \A i \in 1..Len(toMain) : toMain[i].op # "get-history"
    /\ \A i \in 1..Len(toUI) : toUI[i].kind # "get-history"

\* handleDeleteItem(id) up to its await, from the delete button of an entry
\* the list shows
HandleDeleteItem(id) ==
    /\ Loaded
    /\ Len(toMain) < MaxPending
    /\ \E i \in 1..Len(uiHistory) : uiHistory[i].id = id
    /\ toMain' = Append(toMain, [op |-> "delete", arg |-> id])
    /\ UNCHANGED << uiHistory, subscribed, toUI, ipcListeners >>
    /\ RendererStep

\* handleClearHistory() up to its await, from the 'Clear All' button
HandleClearHistory ==
    /\ Loaded
    /\ Len(toMain) < MaxPending
    /\ toMain' = Append(toMain, [op |-> "clear", arg |-> 0])
    /\ UNCHANGED << uiHistory, subscribed, toUI, ipcListeners >>
    /\ RendererStep

\* an App that drops the value its invokes resolve to
AfterPushOnly(current, message) ==
    IF message.kind = "clipboard-updated" THEN message.list ELSE current

\* setClipboardHistory(...) with the list received: in the listener, and
\* behind the await of loadHistory, handleDeleteItem and handleClearHistory
AfterMessage(current, message) == message.list

\* the renderer receives the oldest message in flight
Deliver ==
    /\ toUI # << >>
    /\ uiHistory' = AfterMessage(uiHistory, Head(toUI))
    /\ toUI' = Tail(toUI)
    /\ UNCHANGED << subscribed, toMain, ipcListeners >>
    /\ RendererStep

\* the main process takes the oldest invoke, when it is for this channel
Invoked(op) == toMain # << >> /\ Head(toMain).op = op

\* the inserts explored with the App: one fewer than without it
InsertsLeft == clock' <= StartTime + (MaxInserts - 1) * PollPeriod

\* the step leaves no more than MaxInFlight messages on their way
WithinFlight == Len(toUI') <= MaxInFlight

\* the copies made in other applications: two texts
TextSnapshots ==
    { Snapshot(NoImage, EmptyString, TextA),
      Snapshot(NoImage, EmptyString, TextB) }

\* the poll loop, the tray menu's clear, the window shown again, and the
\* App with its invokes, in every order; the App's deletes are those of the
\* first and of the last entry it shows
NextUI ==
    \/ \E s \in TextSnapshots : ExternalCopy(s) /\ UNCHANGED writeRun
    \/ PollTick /\ InsertsLeft /\ WithinFlight
    \/ ClearHistory /\ UNCHANGED << writeRun, ownWrite >> /\ WithinFlight
    \/ ShowWindow(TRUE) /\ UNCHANGED << writeRun, ownWrite >> /\ WithinFlight
    \/ Mount
    \/ \E i \in { 1, Len(uiHistory) } \ { 0 } :
          HandleDeleteItem(uiHistory[i].id)
    \/ HandleClearHistory
    \/ Invoked("get-history") /\ GetClipboardHistory /\ WithinFlight
    \/ Invoked("delete") /\ DeleteClipboardItem(Head(toMain).arg)
                         /\ WithinFlight
    \/ Invoked("clear") /\ ClearClipboardHistory /\ WithinFlight
    \/ Deliver

SpecUI == InitWith(SeedHistory(1)) /\ [][NextUI]_vars

\* the history under inserts, restores, clears and deletes of an entry
\* between the front one and the one behind the dedup window, from a
\* persisted history whose first and fifth entries are equal; deletes are
\* explored on histories of more than RecentWindow + 1 entries
NextWindow ==
    \/ \E s \in Snapshots : ExternalCopy(s) /\ UNCHANGED writeRun
    \/ PollTick /\ WithinBudget
    \/ \E item \in Pickable : CopyToClipboard(item)
    \/ GuardClear
    \/ \E i \in 2..(RecentWindow + 1) :
          /\ Len(clipboardHistory) > RecentWindow + 1
          /\ DeleteClipboardItem(clipboardHistory[i].id)
    \/ ClearClipboardHistory

SpecWindow == InitWith(SeedHistory(RecentWindow + 2)) /\ [][NextWindow]_vars

\* the poll loop over a clipboard whose reads can fail
NextReads ==
    \/ \E s \in Snapshots : ExternalCopy(s) /\ UNCHANGED writeRun
    \/ PollTick /\ WithinBudget
    \/ \E failed \in SUBSET Representations, thrown \in BOOLEAN :
          FailedPollTick(failed, thrown) /\ WithinBudget

SpecReads == Init /\ [][NextReads]_vars

\* the setting under the history operations and restarts, on macOS
NextSettings ==
    \/ GetAutoPasteSetting
    \/ \E enabled \in BOOLEAN : SetAutoPasteSetting(enabled)
    \/ \E s \in Snapshots : ExternalCopy(s) /\ UNCHANGED writeRun
    \/ PollTick /\ WithinBudget
    \/ \E id \in Deletable : DeleteClipboardItem(id)
    \/ ClearHistory
    \/ ClearClipboardHistory
    \/ Restart

InitSettings ==
    \E record \in SettingsRecords :
        InitFrom(<< >>, record, "darwin")

SpecSettings == InitSettings /\ [][NextSettings]_vars

\* the history operations over a store whose set can throw, from a
\* persisted history one entry below the cap; deletes are explored on a
\* full history
NextSaves ==
    \/ \E s \in Snapshots : ExternalCopy(s) /\ UNCHANGED writeRun
    \/ PollTick /\ WithinBudget
    \/ UnsavedPollTick /\ WithinBudget
    \/ \E id \in Deletable : NearCap /\ UnsavedDelete(id)
    \/ UnsavedClearClipboardHistory
    \/ UnsavedClearHistory
    \/ GetClipboardHistory

InitSaves == InitWith(SeedHistory(HistoryCap - 1))

SpecSaves == InitSaves /\ [][NextSaves]_vars

(***************************************************************************)
(* Scenario: NumCopies sequential distinct text copies, each polled        *)
(***************************************************************************)
Digits == << "0", "1", "2", "3", "4", "5", "6", "7", "8", "9" >>

\* the decimal numeral of k as a string
RECURSIVE Decimal(_)
Decimal(k) ==
    IF k < 10 THEN << Digits[k + 1] >>
    ELSE Decimal(k \div 10) \o << Digits[(k % 10) + 1] >>

\* the text of the k-th copy; nothing has been copied before the first
CopyText(k) == IF k = 0 THEN EmptyString ELSE Decimal(k)

SequentialCopy(k) ==
    /\ osClipboard.text = CopyText(k - 1)
    /\ lastTextContent = osClipboard.text
    /\ ExternalCopy(Snapshot(NoImage, EmptyString, CopyText(k)))
    /\ UNCHANGED writeRun

NextCopies ==
    \/ \E k \in 1..NumCopies : SequentialCopy(k)
    \/ PollTick

SpecCopies == InitWith(<< >>) /\ [][NextCopies]_vars

(***************************************************************************)
(* Classification: one copy of an arbitrary HTML/text pair, then polls     *)
(***************************************************************************)
Tokens == { << "<", "b", ">" >>, << "<" >>, << ">" >>, << "a" >>, << " " >> }

\* the strings made of at most n tokens
RECURSIVE TokenStrings(_)
TokenStrings(n) ==
    IF n = 0 THEN { EmptyString }
    ELSE TokenStrings(n - 1)
            \cup { s \o t : s \in TokenStrings(n - 1), t \in Tokens }

WideSnapshots ==
    { Snapshot(NoImage, html, text) :
        html \in TokenStrings(MaxTokens), text \in { EmptyString, TextA } }
        \cup { Snapshot(NoImage, html, html) : html \in TokenStrings(MaxTokens) }

NextClassify ==
    \/ \E s \in WideSnapshots :
          /\ osClipboard = EmptyClipboard
          /\ ExternalCopy(s)
          /\ UNCHANGED writeRun
    \/ PollTick

SpecClassify == InitWith(<< >>) /\ [][NextClassify]_vars

(***************************************************************************)
(* Repeated writes: external copies, counted, and polls                    *)
(***************************************************************************)
\* a write of what the clipboard already holds continues the run
TrackWrite(s) ==
    writeRun' = IF s = osClipboard /\ writeRun.n >= 1
                THEN [writeRun EXCEPT !.n = 2]
                ELSE [n |-> 1, inserted |-> 0, polled |-> FALSE]

NextWrites ==
    \/ \E s \in Snapshots : ExternalCopy(s) /\ TrackWrite(s)
    \/ PollTick /\ WithinBudget

SpecWrites == Init /\ [][NextWrites]_vars

(***************************************************************************)
(* Properties                                                              *)
(***************************************************************************)

\* C1: the in-memory history never holds more than 100 entries, from a
\* persisted history below the cap, under ticks, restores, deletes and clears.
C1_HistoryWithinCap == Len(clipboardHistory) <= 100

\* two inserts on top of 99 persisted entries: the oldest one was evicted
C1_Witness ==
    /\ Len(clipboardHistory) = HistoryCap
    /\ clipboardHistory[1].id > StartTime
    /\ clipboardHistory[2].id > StartTime
    /\ clipboardHistory[HistoryCap].id = 2 * PollPeriod

\* C2: at the moment the guard flag clears after a restore, the history is
\* what it was before the restore, whatever ticks fired in between.
C2_HistoryKeptUntilGuardClears ==
    sinceRestore.phase = "cleared" => clipboardHistory = sinceRestore.hist

\* the guard cleared after a tick fired inside the window while the clipboard
\* held content the tick would otherwise have taken
C2_Witness ==
    /\ sinceRestore.phase = "cleared"
    /\ sinceRestore.ticked
    /\ osClipboard.text = TextB
    /\ lastTextContent # TextB

\* C3: while the OS clipboard still holds what a restore wrote, an unguarded
\* poll tick inserts no history entry.
C3_OwnWriteNotReingested ==
    [][(ownWrite >= 1 /\ ~isInternalCopy /\ ownWrite' = 2)
          => \A i \in 1..Len(clipboardHistory') :
                \E j \in 1..Len(clipboardHistory) :
                    clipboardHistory[j] = clipboardHistory'[i]]_vars

\* an unguarded tick ran on a restored text that is the fourth entry, outside
\* the window of the dedup policy
C3_Witness ==
    /\ ownWrite = 2
    /\ ~isInternalCopy
    /\ osClipboard.text = TextB
    /\ Len(clipboardHistory) >= 4
    /\ clipboardHistory[4].content = TextB
    /\ \A i \in 1..3 : clipboardHistory[i].content # TextB

\* C4: the same content written twice in a row yields one history entry, not
\* a second one, whatever ticks fire before, between and after the writes.
C4_TwoWritesOneEntry == writeRun.n = 2 => writeRun.inserted <= 1

\* C5: a reported candidate is suppressed exactly when one of the 3 front
\* entries has its content and type; then history and store are unchanged;
\* otherwise it becomes the front entry and the others keep their order.
C5_DedupWindow ==
    [][reported' # NoCandidate =>
        IF \E i \in 1..3 :
              /\ i <= Len(clipboardHistory)
              /\ clipboardHistory[i].content = reported'.content
              /\ clipboardHistory[i].type = reported'.type
        THEN /\ clipboardHistory' = clipboardHistory
             /\ store' = store
        ELSE /\ Len(clipboardHistory') >= 1
             /\ clipboardHistory'[1].content = reported'.content
             /\ clipboardHistory'[1].type = reported'.type
             /\ Tail(clipboardHistory') = Take(clipboardHistory, 99)
             /\ store' = clipboardHistory']_vars

\* a candidate equal to the third entry, and to no earlier one, was suppressed
C5_Witness ==
    /\ reported # NoCandidate
    /\ Len(clipboardHistory) >= 3
    /\ clipboardHistory[3].content = reported.content
    /\ clipboardHistory[3].type = reported.type
    /\ clipboardHistory[1].content # reported.content
    /\ clipboardHistory[2].content # reported.content

\* C6: a tick on which the OS clipboard holds an image inserts no text item
\* and no HTML item.
C6_ImageTakesPriority ==
    [][(reported'.type \in { "text", "html" }
            /\ clipboardHistory' # clipboardHistory)
          => osClipboard.image = NoImage]_vars

C8_NewestFirstMostRecent ==
    \A k \in 0..NumCopies :
        lastTextContent = CopyText(k) =>
            /\ Len(clipboardHistory) = Min(k, 100)
            /\ \A i \in 1..Len(clipboardHistory) :
                  /\ clipboardHistory[i].content = CopyText(k - i + 1)
                  /\ clipboardHistory[i].type = "text"

\* the 101st copy has been polled: copies 101 down to 2 remain
C8_Witness ==
    /\ Len(clipboardHistory) = 100
    /\ clipboardHistory[1].content = Decimal(101)
    /\ clipboardHistory[100].content = Decimal(2)

\* C9: no two entries of the history carry the same id.
C9_UniqueIds ==
    \A i, j \in 1..Len(clipboardHistory) :
        i # j => clipboardHistory[i].id # clipboardHistory[j].id

\* two entries inserted by this run on top of persisted ones
C9_Witness ==
    /\ Len(clipboardHistory) >= 3
    /\ clipboardHistory[1].id > StartTime
    /\ clipboardHistory[2].id > StartTime
    /\ clipboardHistory[3].id < StartTime

\* C10: delete(id) of an id the history contains removes that one entry,
\* keeps every other entry in order, and returns the new history.
C10_DeleteRemovesOne ==
    [][(/\ returned'.op = "delete"
        /\ \E i \in 1..Len(clipboardHistory) :
              clipboardHistory[i].id = returned'.arg)
          => /\ \E i \in 1..Len(clipboardHistory) :
                  /\ clipboardHistory[i].id = returned'.arg
                  /\ clipboardHistory' =
                        SubSeq(clipboardHistory, 1, i - 1)
                            \o SubSeq(clipboardHistory, i + 1,
                                      Len(clipboardHistory))
             /\ Len(clipboardHistory') = Len(clipboardHistory) - 1
             /\ returned'.list = clipboardHistory']_vars

\* the front entry of a history of three or more was deleted
C10_Witness ==
    /\ returned.op = "delete"
    /\ returned.arg # 0
    /\ Len(returned.list) >= 2
    /\ \A i \in 1..Len(returned.list) : returned.list[i].id < returned.arg
    /\ clipboardHistory = returned.list

\* C11: delete(id) of an id no entry carries changes neither the history nor
\* the persisted history, and returns the history as it was before the call.
C11_DeleteAbsentIsNoOp ==
    [][(/\ returned'.op = "delete"
        /\ \A i \in 1..Len(clipboardHistory) :
              clipboardHistory[i].id # returned'.arg)
          => /\ clipboardHistory' = clipboardHistory
             /\ store' = store
             /\ returned'.list = clipboardHistory]_vars

\* an absent id was deleted from a history of three or more entries
C11_Witness ==
    /\ returned.op = "delete"
    /\ Len(clipboardHistory) >= 3
    /\ \A i \in 1..Len(clipboardHistory) : clipboardHistory[i].id # returned.arg
    /\ returned.list = clipboardHistory

\* C12: every step that changes the history sends one 'clipboard-updated'
\* message whose payload is the history right after the change.
C12_MutationNotifies ==
    [][clipboardHistory' # clipboardHistory
          => notified' = Notice(clipboardHistory')]_vars

\* C13: the persisted history equals the in-memory history, so a restart
\* loads the history that was in memory.
C13_PersistedEqualsMemory == store = clipboardHistory

\* an entry inserted by this run was deleted again, with others remaining
C13_Witness ==
    /\ returned.op = "delete"
    /\ clock > StartTime
    /\ Len(clipboardHistory) > RecentWindow
    /\ \A i \in 1..Len(clipboardHistory) : clipboardHistory[i].id # returned.arg
    /\ returned.arg > StartTime
    /\ store = clipboardHistory

C15_NoPasteWhenDisabled ==
    [][/\ (guardTimers' = guardTimers + 1 /\ ~autoPasteEnabled)
            => /\ \E item \in Pickable : osClipboard' = WrittenClipboard(item)
               /\ pasteTimers' = pasteTimers
               /\ pasteInner' = pasteInner
               /\ actuated' = NoPaste
       /\ (actuated'.keystroke # "" \/ actuated'.feedback # "none")
            => (pasteTimers' < pasteTimers \/ pasteInner' < pasteInner)]_vars

\* the text was restored with auto-paste disabled and nothing is scheduled
C15_Witness ==
    /\ sinceRestore.phase = "open"
    /\ ownWrite = 1
    /\ ~autoPasteEnabled
    /\ pasteTimers = 0
    /\ pasteInner = 0
    /\ isInternalCopy
    /\ osClipboard.text = TextB

\* C16: a paste attempt that has run to its end has sent a paste-feedback
\* event.
C16_EveryAttemptReported ==
    actuated.outcome \in { "pasted", "failed", "skipped" }
        => actuated.feedback # "none"

\* C17: on macOS no paste keystroke is sent while Finder is the front-most
\* application.
C17_NoKeystrokeIntoFinder ==
    platform = "darwin" => actuated.keystroke # "Finder"

\* C18: a failed paste step changes neither the clipboard, nor the last-seen
\* slots, the guard or the history; and the step that schedules a paste is
\* the one that completed the clipboard write and the last-seen update.
C18_PasteFailureLeavesRestore ==
    [][/\ actuated'.outcome = "failed"
            => /\ osClipboard' = osClipboard
               /\ lastTextContent' = lastTextContent
               /\ lastHtmlContent' = lastHtmlContent
               /\ lastImageHash' = lastImageHash
               /\ isInternalCopy' = isInternalCopy
               /\ guardTimers' = guardTimers
               /\ clipboardHistory' = clipboardHistory
               /\ store' = store
       /\ pasteTimers' > pasteTimers
            => \E item \in Pickable :
                  /\ osClipboard' = WrittenClipboard(item)
                  /\ lastTextContent' = LastSeenAfterRestore(item).text
                  /\ lastHtmlContent' = LastSeenAfterRestore(item).html
                  /\ lastImageHash' = LastSeenAfterRestore(item).hash]_vars

\* the delayed keystroke failed and the clipboard still holds the restored text
C18_Witness ==
    /\ actuated.outcome = "failed"
    /\ actuated.feedback = "failure"
    /\ ownWrite >= 1
    /\ osClipboard.text = TextB
    /\ lastTextContent = TextB
    /\ pasteTimers = 0
    /\ pasteInner = 0

\* C19: the in-memory setting equals the persisted one, enabled when nothing
\* is persisted; set returns its argument and get the flag; nothing but set
\* changes either.
C19_SettingInSync ==
    /\ [](/\ autoPasteEnabled = (settings # "off")
          /\ returned.op = "set-auto-paste"
                => /\ autoPasteEnabled = returned.reply
                   /\ settings = (IF returned.reply THEN "on" ELSE "off")
          /\ returned.op = "get-auto-paste"
                => returned.reply = autoPasteEnabled)
    /\ [][returned'.op # "set-auto-paste"
            => /\ autoPasteEnabled' = autoPasteEnabled
               /\ settings' = settings]_vars

\* the setting was switched off on a history that holds an entry
C19_Witness ==
    /\ returned.op = "set-auto-paste"
    /\ ~returned.reply
    /\ ~autoPasteEnabled
    /\ settings = "off"
    /\ Len(clipboardHistory) >= 1

\* C20: a tick on which a clipboard read fails changes neither the history
\* nor a last-seen slot.
C20_FailedReadIsNoNewContent ==
    [][failedReads' # {}
          => /\ clipboardHistory' = clipboardHistory
             /\ store' = store
             /\ lastTextContent' = lastTextContent
             /\ lastHtmlContent' = lastHtmlContent
             /\ lastImageHash' = lastImageHash]_vars

\* C21: when the persistence write of an insert, a delete or a clear throws,
\* the in-memory history holds the mutation, stays within 100 entries and is
\* what get-history returns; a later tick keeps every entry in place and
\* inserts no second entry for a content of the 3 front entries.
C21_MemoryKeptWhenSaveFails ==
    /\ [](/\ Len(clipboardHistory) <= 100
          /\ returned.op = "get-history" => returned.list = clipboardHistory)
    /\ [][/\ saveFailed'.op = "insert"
               => /\ Len(clipboardHistory') >= 1
                  /\ clipboardHistory'[1].content = reported'.content
                  /\ clipboardHistory'[1].type = reported'.type
                  /\ Tail(clipboardHistory') = Take(clipboardHistory, 99)
          /\ saveFailed'.op = "delete"
               => clipboardHistory' =
                     SelectSeq(clipboardHistory,
                               LAMBDA e : e.id # saveFailed'.arg)
          /\ saveFailed'.op = "clear" => clipboardHistory' = << >>
          /\ (store # clipboardHistory /\ reported' # NoCandidate)
               => \/ clipboardHistory' = clipboardHistory
                  \/ /\ Tail(clipboardHistory') = Take(clipboardHistory, 99)
                     /\ \A i \in 1..Min(3, Len(clipboardHistory)) :
                           \/ clipboardHistory[i].content
                                  # clipboardHistory'[1].content
                           \/ clipboardHistory[i].type
                                  # clipboardHistory'[1].type]_vars

\* the tick after an insert that was not persisted reported the content
\* again, and it was suppressed: it is the front entry, the store lacks it
C21_Witness ==
    /\ reported # NoCandidate
    /\ notified = NoNotice
    /\ saveFailed = NoFailure
    /\ Len(clipboardHistory) >= 1
    /\ clipboardHistory[1].content = reported.content
    /\ clipboardHistory[1].type = reported.type
    /\ \A i \in 1..Len(store) : store[i].id # clipboardHistory[1].id

\* C22: a poll tick that fires while the guard flag is set changes neither the
\* history, the persisted history nor a last-seen slot, and sends no
\* notification.
C22_GuardedTickChangesNothing ==
    [][(isInternalCopy /\ PollTick)
          => /\ clipboardHistory' = clipboardHistory
             /\ store' = store
             /\ lastTextContent' = lastTextContent
             /\ lastHtmlContent' = lastHtmlContent
             /\ lastImageHash' = lastImageHash
             /\ notified' = NoNotice]_vars

\* a tick fired inside the guard window while the clipboard held an image
\* and a text another application had put there
C22_Witness ==
    /\ isInternalCopy
    /\ sinceRestore.phase = "open"
    /\ sinceRestore.ticked
    /\ osClipboard = Snapshot(Bitmap1, EmptyString, TextB)
    /\ lastImageHash # Md5(ToPNG(Bitmap1))
    /\ lastTextContent # TextB

\* C23: whenever the guard flag is set, a state follows in which it is clear.
C23_GuardEventuallyClears == isInternalCopy ~> ~isInternalCopy

C27_CopyBecomesFront ==
    [][(/\ writeRun.n >= 1
        /\ ~writeRun.polled
        /\ writeRun'.polled
        /\ osClipboard.image = NoImage
        /\ CurrentContent(osClipboard.html, osClipboard.text) # EmptyString
        /\ \A i \in 1..Min(3, Len(clipboardHistory)) :
              \/ clipboardHistory[i].content
                     # CurrentContent(osClipboard.html, osClipboard.text)
              \/ clipboardHistory[i].type
                     # ContentType(osClipboard.html, osClipboard.text))
          => /\ Len(clipboardHistory') >= 1
             /\ clipboardHistory'[1].content
                    = CurrentContent(osClipboard.html, osClipboard.text)
             /\ clipboardHistory'[1].type
                    = ContentType(osClipboard.html, osClipboard.text)]_vars

\* C29: while one external copy stays on the clipboard, the poll ticks insert
\* at most one history entry.
C29_OneCopyOneEntry == writeRun.n = 1 => writeRun.inserted <= 1

\* C24: at most one polling timer is active, over init from ready and from
\* activate, closed windows and cleanup; once cleanup has cleared the timer
\* no step changes the history.
C24_OnePoller ==
    /\ [](pollTimers <= 1)
    /\ [][(initCalls > 0 /\ ~pollInterval)
            => clipboardHistory' = clipboardHistory]_vars

\* init() ran a second time after polling had inserted an entry, and cleanup
\* followed
C24_Witness ==
    /\ initCalls = 2
    /\ windows = 1
    /\ clock > StartTime
    /\ ~pollInterval
    /\ pollTimers = 0
    /\ osClipboard.text = TextA
    /\ lastTextContent # TextA

\* C28: what the clipboard holds when monitoring starts is recorded by no
\* tick: every history entry is one of the persisted ones.
C28_BaselineNotRecorded ==
    \A i \in 1..Len(clipboardHistory) :
        clipboardHistory[i].timestamp < StartTime

\* C25: the application a paste step reactivates is the one that was
\* front-most when the picker was last shown (a showing with the picker
\* itself in front names no application to return to).
C25_PasteTargetIsShownFront ==
    (actuated.outcome = "activated" /\ shownFront # OwnApp)
        => frontApp = shownFront

\* C30: any two history entries whose positions differ by at most 3 differ in
\* content or in type.
C30_WindowDistinct ==
    \A i, j \in 1..Len(clipboardHistory) :
        (i < j /\ j - i <= 3)
            => \/ clipboardHistory[i].content # clipboardHistory[j].content
               \/ clipboardHistory[i].type # clipboardHistory[j].type

\* C30, amended: a step that is no delete keeps any two entries whose
\* positions differ by at most 3 different in content or in type.
C30_WindowDistinctKeptWithoutDelete ==
    [][LET Distinct(h) ==
               \A i, j \in 1..Len(h) :
                   (i < j /\ j - i <= 3)
                       => (h[i].content # h[j].content \/ h[i].type # h[j].type)
       IN  (Distinct(clipboardHistory) /\ returned'.op # "delete")
               => Distinct(clipboardHistory')]_vars

\* an entry equal to the one four positions behind it was inserted
C30_Witness ==
    /\ Len(clipboardHistory) >= 5
    /\ clipboardHistory[1].id > StartTime
    /\ clipboardHistory[1].content = clipboardHistory[5].content
    /\ clipboardHistory[1].type = clipboardHistory[5].type
    /\ reported.content = clipboardHistory[1].content

\* C31: while the clearing timer of the latest restore is pending, that is
\* for the full guard delay after it, the internal-write flag is set: the
\* timer of an earlier restore does not clear it inside that window
C31_GuardHeldForLaterRestore == guardTimers > 0 => isInternalCopy

\* C32: once the App is mounted and no invoke, reply or 'clipboard-updated'
\* message is on its way, the list the App holds is the history of the main
\* process, whatever the order of poll inserts, deletes and clears from the
\* window, clears from the tray menu and shows of the window
C32_UIListIsHistoryAtRest ==
    (subscribed /\ toMain = << >> /\ toUI = << >>)
        => uiHistory = clipboardHistory

\* at rest after the window was shown, a copy was inserted and the App
\* deleted the inserted entry, which it had received: the list holds the
\* persisted entry alone
C32_Witness ==
    /\ subscribed
    /\ toMain = << >>
    /\ toUI = << >>
    /\ frontApp = OwnApp
    /\ clock > StartTime
    /\ clipboardHistory = << SeedItem(1) >>
    /\ uiHistory = clipboardHistory

\* C33: an event of a channel calls every callback subscribed on that
\* channel whose own handle has not been called: the handle of one
\* subscription stops the delivery to its callback only
C33_UnsubscribeStopsOnlyItsCallback ==
    \A ch \in Channels :
        ipcListeners.emitted = ch
            => ipcListeners.called =
                   (1..ipcListeners.made[ch]) \ ipcListeners.cancelled[ch]

====
